---- MODULE Spec2Model ----
(***************************************************************************)
(* Model of internal/policy/license/license.go: License.ValidateLicense-   *)
(* Header and HeaderCheck.  One run of ValidateLicenseHeader is a          *)
(* sequential program: compile the skipPaths patterns, test the header,    *)
(* let filepath.Walk call the callback once per entry in lexical pre-order,*)
(* then append the walk failure, if any.  The file system, the gitignore   *)
(* matcher and filepath.Walk are the environment of that program.          *)
(***************************************************************************)
EXTENDS Integers, Sequences, FiniteSets

\* ------------------------------------------------------------------ bounds
\* Largest number of entries the compiled patterns match.
MaxMatched == 1

\* ------------------------------------------------------- the walked tree
\* Entries in the order filepath.Walk visits them (pre-order, names sorted):
\*   1 "."   2 "d"   3 "d/b*"   4 "d/e"   5 "d/e/c*"   6 "z*"
Entries == 1..6
Dirs == {1, 2, 4}
Files == Entries \ Dirs
Parent == <<0, 1, 2, 2, 4, 1>>

IsDir(i) == i \in Dirs

RECURSIVE IsUnder(_, _)
\* j lies strictly below directory i
IsUnder(j, i) ==
  IF j = 0 THEN FALSE
  ELSE IF Parent[j] = i THEN TRUE
  ELSE IsUnder(Parent[j], i)

\* Entry following i in the walk when the subtree of i is entered.
NextEntry(i) == IF i + 1 \in Entries THEN i + 1 ELSE 0

\* Entry following i in the walk when the subtree of i is not entered.
SkipTo(i) ==
  LET later == {j \in Entries : j > i /\ ~IsUnder(j, i)}
  IN IF later = {} THEN 0
     ELSE CHOOSE j \in later : \A k \in later : j <= k

\* ------------------------------------------------------ strings and bytes
\* strings.HasSuffix
HasSuffix(s, suffix) ==
  /\ Len(suffix) <= Len(s)
  /\ SubSeq(s, Len(s) - Len(suffix) + 1, Len(s)) = suffix

\* bytes.HasPrefix
HasPrefix(s, prefix) ==
  /\ Len(prefix) <= Len(s)
  /\ SubSeq(s, 1, Len(prefix)) = prefix

\* ----------------------------------------------------------- input space
TheHeader == <<"L", "C">>
Headers == {<< >>, TheHeader}

DotGo == <<".", "g", "o">>
BareGo == <<"g", "o">>
TestGo == <<"_", "t", ".", "g", "o">>

IncludeChoices == {<< >>, <<DotGo>>, <<BareGo, DotGo>>}
ExcludeChoices == {<< >>, <<TestGo>>}

\* A pattern line is either one gitignore.New parses or one it rejects.
GoodPattern == "well-formed"
BadPattern == "malformed"
SkipPathsChoices ==
  {<< >>, <<GoodPattern>>, <<BadPattern>>, <<BadPattern, GoodPattern>>}

Malformed(pattern) == pattern = BadPattern

\* File contents, relative to TheHeader.
WithHeader == <<"L", "C", "x">>
TooShort == <<"L">>
Differs == <<"x", "C", "y">>

\* What a file entry can be: name tail, mode, readability, content.
FileKinds ==
  {[tail |-> DotGo, regular |-> TRUE, readable |-> TRUE, content |-> WithHeader],
   [tail |-> DotGo, regular |-> TRUE, readable |-> TRUE, content |-> TooShort],
   [tail |-> DotGo, regular |-> TRUE, readable |-> TRUE, content |-> Differs],
   [tail |-> DotGo, regular |-> TRUE, readable |-> FALSE, content |-> Differs],
   [tail |-> DotGo, regular |-> FALSE, readable |-> TRUE, content |-> Differs],
   [tail |-> TestGo, regular |-> TRUE, readable |-> TRUE, content |-> Differs],
   [tail |-> << >>, regular |-> TRUE, readable |-> TRUE, content |-> Differs]}

\* The kinds the deepest file, d/e/c*, is drawn from.
DeepFileKinds ==
  {k \in FileKinds : k.regular /\ k.tail = DotGo /\ k.content # TooShort}

\* First letter of each entry's base name; it fixes the walk order.
Stem == <<".", "d", "b", "e", "c", "z">>

VARIABLES
  l,          \* the License receiver: SkipPaths, IncludeSuffixes, ExcludeSuffixes, Header
  fs,         \* the tree under ".": for each file entry its kind
  matched,    \* entries for which patternmatcher.Relative returns a match
  pc,         \* position in ValidateLicenseHeader
  check,      \* the HeaderCheck being built
  pos,        \* entry filepath.Walk hands to the callback next, 0 when none is left
  walkErr,    \* entry at which the callback returned an error, 0 when nil
  cbErr,      \* entry for which Walk passed a non-nil err to the callback, 0 when none
  prev,       \* what the previous run over this tree returned and met, NoRun in the first run
  visited,    \* entries the callback was invoked for, in order
  reads       \* entries handed to ioutil.ReadFile, one per call, in order

vars == <<l, fs, matched, pc, check, pos, walkErr, cbErr, prev, visited, reads>>

NoRun == [run |-> FALSE]

\* os.FileInfo of an entry
Name(i) == IF IsDir(i) THEN <<Stem[i]>> ELSE <<Stem[i]>> \o fs[i].tail
IsRegular(i) == ~IsDir(i) /\ fs[i].regular

\* ------------------------------------------------------------ violations
PatternError(p) == [kind |-> "pattern", entry |-> 0]
HeaderNotDefined == [kind |-> "Header is not defined", entry |-> 0]
FailedToOpen(i) == [kind |-> "Failed to open", entry |-> i]
NoLicenseHeader(i) == [kind |-> "does not contain a license header", entry |-> i]
FailedToWalk(i) == [kind |-> "Failed to walk directory", entry |-> 0]

RECURSIVE ParseErrors(_)
\* The errors gitignore.New hands to the error callback while parsing.
ParseErrors(patterns) ==
  IF patterns = << >> THEN << >>
  ELSE (IF Malformed(Head(patterns)) THEN <<PatternError(Head(patterns))>> ELSE << >>)
       \o ParseErrors(Tail(patterns))

\* ------------------------------------------------------------ the callback
\* Variant of Excluded: the suffix is looked for at the start of the name.
ExcludedByPrefix(name) ==
  \E k \in 1..Len(l.ExcludeSuffixes) : HasPrefix(name, l.ExcludeSuffixes[k])

\* for _, suffix := range l.ExcludeSuffixes
Excluded(name) ==
  \E k \in 1..Len(l.ExcludeSuffixes) : HasSuffix(name, l.ExcludeSuffixes[k])

RECURSIVE IncludeLoopNoContinue(_, _, _)
\* Variant of IncludeLoop: a file with the header is not passed over.
IncludeLoopNoContinue(i, k, acc) ==
  IF k > Len(l.IncludeSuffixes) THEN acc
  ELSE IF ~HasSuffix(Name(i), l.IncludeSuffixes[k])
    THEN IncludeLoopNoContinue(i, k + 1, acc)
  ELSE IF ~fs[i].readable
    THEN [errs |-> Append(acc.errs, FailedToOpen(i)),
          reads |-> Append(acc.reads, i)]
  ELSE IncludeLoopNoContinue(i, k + 1,
         [errs |-> Append(acc.errs, NoLicenseHeader(i)),
          reads |-> Append(acc.reads, i)])

RECURSIVE IncludeLoop(_, _, _)
\* for _, suffix := range l.IncludeSuffixes, from index k on; acc is what the
\* iterations before k appended to check.errors and read.
IncludeLoop(i, k, acc) ==
  IF k > Len(l.IncludeSuffixes) THEN acc
  ELSE IF ~HasSuffix(Name(i), l.IncludeSuffixes[k]) THEN IncludeLoop(i, k + 1, acc)
  ELSE IF ~fs[i].readable
    THEN [errs |-> Append(acc.errs, FailedToOpen(i)),
          reads |-> Append(acc.reads, i)]
  ELSE IF HasPrefix(fs[i].content, l.Header)
    THEN IncludeLoop(i, k + 1, [acc EXCEPT !.reads = Append(@, i)])
  ELSE IncludeLoop(i, k + 1,
         [errs |-> Append(acc.errs, NoLicenseHeader(i)),
          reads |-> Append(acc.reads, i)])

Nothing == [errs |-> << >>, reads |-> << >>]

\* A return of the callback with value ret after the effects eff.
Return(ret, eff) == [ret |-> ret, errs |-> eff.errs, reads |-> eff.reads]

\* Variant of Callback: a failed read is returned to filepath.Walk.
CallbackReadErrorAborts(i, err) ==
  IF err THEN Return("err", Nothing)
  ELSE IF i \in matched /\ IsDir(i) THEN Return("SkipDir", Nothing)
  ELSE IF ~IsRegular(i) THEN Return("nil", Nothing)
  ELSE IF Excluded(Name(i)) THEN Return("nil", Nothing)
  ELSE LET eff == IncludeLoop(i, 1, Nothing)
       IN IF \E k \in DOMAIN eff.errs : eff.errs[k] = FailedToOpen(i)
            THEN Return("err", eff)
            ELSE Return("nil", eff)

\* Variant of Callback: the err argument is not looked at.
CallbackIgnoresErr(i, err) ==
  IF err THEN Return("nil", Nothing)
  ELSE IF i \in matched /\ IsDir(i) THEN Return("SkipDir", Nothing)
  ELSE IF ~IsRegular(i) THEN Return("nil", Nothing)
  ELSE IF Excluded(Name(i)) THEN Return("nil", Nothing)
  ELSE Return("nil", IncludeLoop(i, 1, Nothing))

\* The function passed to filepath.Walk, applied to entry i with error err:
\* its return value, the violations it appends and the files it reads.
Callback(i, err) ==
  IF err THEN Return("err", Nothing)
  ELSE IF i \in matched /\ IsDir(i) THEN Return("SkipDir", Nothing)
  ELSE IF ~IsRegular(i) THEN Return("nil", Nothing)
  ELSE IF Excluded(Name(i)) THEN Return("nil", Nothing)
  ELSE Return("nil", IncludeLoop(i, 1, Nothing))

\* filepath.Walk: the entry it visits after the callback returned ret for
\* entry i, to which it had passed err.
WalkNext(i, err, ret) ==
  IF ret = "err" THEN 0
  ELSE IF ret = "SkipDir" THEN SkipTo(i)
  ELSE IF err THEN SkipTo(i)
  ELSE NextEntry(i)

\* ------------------------------------------------------------ HeaderCheck
Digit == <<"0", "1", "2", "3", "4", "5", "6", "7", "8", "9">>

RECURSIVE Decimal(_)
\* fmt's %d of a non-negative int
Decimal(n) ==
  IF n < 10 THEN <<Digit[n + 1]>>
  ELSE Append(Decimal(n \div 10), Digit[(n % 10) + 1])

AllValid == <<"All files have a valid license header">>
Found(digits) == <<"Found ">> \o digits \o <<" files without license header">>

\* Variant of Message: a single violation is not counted.
MessageOffByOne(c) ==
  IF Len(c.errors) > 1 THEN Found(Decimal(Len(c.errors))) ELSE AllValid

\* HeaderCheck.Message
Message(c) ==
  IF Len(c.errors) # 0 THEN Found(Decimal(Len(c.errors))) ELSE AllValid

\* HeaderCheck.Errors
Errors(c) == c.errors

\* ---------------------------------------------------------------- actions
MatchedChoices ==
  {m \in SUBSET Entries : Cardinality(m) <= MaxMatched}

Init ==
  /\ l \in [SkipPaths : SkipPathsChoices,
            IncludeSuffixes : IncludeChoices,
            ExcludeSuffixes : ExcludeChoices,
            Header : Headers]
  /\ fs \in [Files -> FileKinds]
  /\ fs[5] \in DeepFileKinds
  /\ matched \in MatchedChoices
  /\ (\A k \in 1..Len(l.SkipPaths) : Malformed(l.SkipPaths[k])) => matched = {}
  /\ pc = "new"
  /\ check = [errors |-> << >>]
  /\ pos = 0
  /\ walkErr = 0
  /\ cbErr = 0
  /\ prev = NoRun
  /\ visited = << >>
  /\ reads = << >>

\* gitignore.New: parse the patterns, reporting each malformed one.
NewMatcher ==
  /\ pc = "new"
  /\ check' = [errors |-> check.errors \o ParseErrors(l.SkipPaths)]
  /\ pc' = "header"
  /\ UNCHANGED <<l, fs, matched, pos, walkErr, cbErr, prev, visited, reads>>

\* Variant of CheckHeader: the violation is recorded and the run goes on.
CheckHeaderNoReturn ==
  /\ pc = "header"
  /\ check' = IF l.Header = << >>
                THEN [errors |-> Append(check.errors, HeaderNotDefined)]
                ELSE check
  /\ pc' = "walk"
  /\ pos' = 1
  /\ UNCHANGED <<l, fs, matched, walkErr, cbErr, prev, visited, reads>>

\* if l.Header == "" { ...; return check }
CheckHeader ==
  /\ pc = "header"
  /\ IF l.Header = << >>
       THEN /\ check' = [errors |-> Append(check.errors, HeaderNotDefined)]
            /\ pc' = "done"
            /\ pos' = 0
       ELSE /\ check' = check
            /\ pc' = "walk"
            /\ pos' = 1
  /\ UNCHANGED <<l, fs, matched, walkErr, cbErr, prev, visited, reads>>

\* Whether os.Lstat or the directory listing of entry i fails: either, in the
\* first run over a tree; as in the first run, in a run over the unchanged tree.
LstatOrReaddirFails(i) == IF prev.run THEN {i = prev.cbErr} ELSE BOOLEAN

\* filepath.Walk invokes the callback for the next entry.
WalkFn ==
  /\ pc = "walk"
  /\ pos # 0
  /\ \E err \in LstatOrReaddirFails(pos) :
       LET r == Callback(pos, err)
       IN /\ check' = [errors |-> check.errors \o r.errs]
          /\ reads' = reads \o r.reads
          /\ visited' = Append(visited, pos)
          /\ cbErr' = IF err THEN pos ELSE cbErr
          /\ walkErr' = IF r.ret = "err" THEN pos ELSE walkErr
          /\ pos' = WalkNext(pos, err, r.ret)
  /\ UNCHANGED <<l, fs, matched, pc, prev>>

\* Variant of Finish: the walk failure replaces the list.
FinishReplaces ==
  /\ pc = "walk"
  /\ pos = 0
  /\ check' = IF walkErr # 0
                THEN [errors |-> <<FailedToWalk(walkErr)>>]
                ELSE check
  /\ pc' = "done"
  /\ UNCHANGED <<l, fs, matched, pos, walkErr, cbErr, prev, visited, reads>>

\* filepath.Walk returned: if err != nil { append "Failed to walk directory" }
Finish ==
  /\ pc = "walk"
  /\ pos = 0
  /\ check' = IF walkErr # 0
                THEN [errors |-> Append(check.errors, FailedToWalk(walkErr))]
                ELSE check
  /\ pc' = "done"
  /\ UNCHANGED <<l, fs, matched, pos, walkErr, cbErr, prev, visited, reads>>

\* Compliance is called again on the unchanged tree: a fresh HeaderCheck.
Compliance ==
  /\ pc = "done"
  /\ ~prev.run
  /\ prev' = [run |-> TRUE, check |-> check, cbErr |-> cbErr]
  /\ pc' = "new"
  /\ check' = [errors |-> << >>]
  /\ pos' = 0
  /\ walkErr' = 0
  /\ cbErr' = 0
  /\ visited' = << >>
  /\ reads' = << >>
  /\ UNCHANGED <<l, fs, matched>>

Next == NewMatcher \/ CheckHeader \/ WalkFn \/ Finish \/ Compliance

Spec == Init /\ [][Next]_vars

\* ======================================================= properties
Seen == {visited[k] : k \in DOMAIN visited}
ReadSet == {reads[k] : k \in DOMAIN reads}

\* Number of violations the report holds for entry i.
ViolationsFor(i) ==
  Cardinality({k \in DOMAIN check.errors : check.errors[k].entry = i})

\* Number of ioutil.ReadFile calls made on entry i.
ReadsOf(i) == Cardinality({k \in DOMAIN reads : reads[k] = i})

KindCount(errors, kind) ==
  Cardinality({k \in DOMAIN errors : errors[k].kind = kind})

EndsWithAny(name, suffixes) ==
  \E k \in DOMAIN suffixes : HasSuffix(name, suffixes[k])

MatchingIncludes(i) ==
  {k \in DOMAIN l.IncludeSuffixes : HasSuffix(Name(i), l.IncludeSuffixes[k])}

\* Entry i was handed to the callback with a nil err.
VisitedOK(i) == i \in Seen /\ i # cbErr

\* The callback is being invoked for entry pos in this step.
CallbackStep == pc = "walk" /\ pos # 0 /\ visited' = Append(visited, pos)

IsPrefixOf(s, t) == Len(s) <= Len(t) /\ SubSeq(t, 1, Len(s)) = s

\* C1: a visited regular file that the matcher matches gets no violation
\* and is not read.
C1_MatchedFileSkipped ==
  \A i \in Files :
    (VisitedOK(i) /\ IsRegular(i) /\ i \in matched)
      => (ViolationsFor(i) = 0 /\ i \notin ReadSet)

\* C2: in the finished report, a visited, readable, regular file that is not
\* excluded by pattern or suffix, ends with an include suffix and lacks the
\* header has exactly one violation.
C2_ExactlyOneViolation ==
  pc = "done" =>
    \A i \in Files :
      (/\ VisitedOK(i) /\ IsRegular(i) /\ fs[i].readable
       /\ i \notin matched
       /\ ~EndsWithAny(Name(i), l.ExcludeSuffixes)
       /\ EndsWithAny(Name(i), l.IncludeSuffixes)
       /\ ~HasPrefix(fs[i].content, l.Header))
        => ViolationsFor(i) = 1

\* C3 as stated: with an empty Header the returned check holds exactly the
\* one "Header is not defined" violation, whatever SkipPaths is, and nothing
\* was visited or read.
C3_ExactlyOneWhateverSkipPaths ==
  (pc = "done" /\ l.Header = << >>) =>
    (/\ Errors(check) = <<HeaderNotDefined>>
     /\ visited = << >>
     /\ reads = << >>)

MalformedCount ==
  Cardinality({k \in DOMAIN l.SkipPaths : Malformed(l.SkipPaths[k])})

\* C3 amended: with an empty Header the returned check holds one error per
\* malformed SkipPaths pattern followed by exactly one "Header is not
\* defined" violation, and nothing was visited or read.
C3_HeaderNotDefinedLast ==
  (pc = "done" /\ l.Header = << >>) =>
    (/\ Len(Errors(check)) = MalformedCount + 1
     /\ Errors(check)[Len(Errors(check))] = HeaderNotDefined
     /\ \A k \in 1..MalformedCount : Errors(check)[k].kind = "pattern"
     /\ visited = << >>
     /\ reads = << >>)

C3_Witness ==
  /\ pc = "done"
  /\ l.Header = << >>
  /\ l.IncludeSuffixes # << >>
  /\ MalformedCount = 1
  /\ Len(check.errors) = 2

\* C4: when the walk visits a directory below the root that the matcher
\* matches, it goes on at the directory's next sibling without failing, and
\* nothing below that directory is visited.
C4_MatchedDirPruned ==
  [][(CallbackStep /\ pos \in Dirs /\ Parent[pos] # 0 /\ pos \in matched)
       => (/\ pos' = SkipTo(pos)
           /\ walkErr' = 0
           /\ \A j \in Entries : IsUnder(j, pos) => j \notin Seen')]_vars

\* C5: a file whose name ends with an exclude suffix, or with no include
\* suffix, is never read and never reported; whatever is read or reported
\* is a regular file with an include suffix and no exclude suffix.
C5_SuffixPrecedence ==
  \A i \in Files :
    /\ (\/ EndsWithAny(Name(i), l.ExcludeSuffixes)
        \/ ~EndsWithAny(Name(i), l.IncludeSuffixes))
         => (i \notin ReadSet /\ ViolationsFor(i) = 0)
    /\ (i \in ReadSet \/ ViolationsFor(i) > 0)
         => (/\ IsRegular(i)
             /\ EndsWithAny(Name(i), l.IncludeSuffixes)
             /\ ~EndsWithAny(Name(i), l.ExcludeSuffixes))

C5_Witness ==
  /\ pc = "done"
  /\ \E i \in Files :
       /\ VisitedOK(i) /\ IsRegular(i) /\ i \notin matched
       /\ fs[i].tail = TestGo
       /\ EndsWithAny(Name(i), l.ExcludeSuffixes)
       /\ EndsWithAny(Name(i), l.IncludeSuffixes)
       /\ ~HasPrefix(fs[i].content, l.Header)
       /\ ViolationsFor(i) = 0
  /\ \E j \in Files : j \in ReadSet

\* C6: a readable file whose content begins with the non-empty header gets
\* no violation, however many include suffixes its name ends with.
C6_HeaderPresentNoViolation ==
  \A i \in Files :
    (l.Header # << >> /\ fs[i].readable /\ HasPrefix(fs[i].content, l.Header))
      => ViolationsFor(i) = 0

C6_Witness ==
  /\ pc = "done"
  /\ \E i \in Files :
       /\ fs[i].content = WithHeader
       /\ Cardinality(MatchingIncludes(i)) = 2
       /\ ReadsOf(i) = 2
       /\ ViolationsFor(i) = 0

\* The file passes the suffix filter.
Checkable(i) ==
  /\ IsRegular(i)
  /\ ~EndsWithAny(Name(i), l.ExcludeSuffixes)
  /\ EndsWithAny(Name(i), l.IncludeSuffixes)

\* C7: when the read of a checkable file fails, the callback appends one
\* "Failed to open" violation for it and the walk goes on at the next entry
\* with no walk error; a run in which Walk passed no error to the callback
\* ends without a "Failed to walk directory" violation.
C7_ReadFailureContinues ==
  [][/\ (CallbackStep /\ pos \in Files /\ cbErr' = cbErr
          /\ Checkable(pos) /\ ~fs[pos].readable)
         => (/\ check'.errors = Append(check.errors, FailedToOpen(pos))
             /\ pos' = NextEntry(pos)
             /\ walkErr' = 0)
     /\ (pc' = "done" /\ cbErr' = 0)
         => KindCount(check'.errors, "Failed to walk directory") = 0]_vars

C7_Witness ==
  /\ pc = "done"
  /\ cbErr = 0
  /\ \E i \in Files :
       /\ ~fs[i].readable
       /\ ViolationsFor(i) = 1
       /\ \E k \in DOMAIN check.errors : check.errors[k] = FailedToOpen(i)
       /\ \E j \in Files : j > i /\ j \in ReadSet /\ ViolationsFor(j) = 1

\* C8: when Walk passes a non-nil err to the callback, the walk stops there
\* with the violations so far kept; afterwards nothing is visited or read,
\* and the run ends by appending one "Failed to walk directory" violation,
\* the only one and the last of the list.
C8_WalkErrorStops ==
  [][/\ (cbErr' # cbErr /\ cbErr' # 0)
         => (/\ pos' = 0
             /\ walkErr' = cbErr'
             /\ check' = check
             /\ reads' = reads)
     /\ (cbErr # 0 /\ pc' # "new")
         => (visited' = visited /\ reads' = reads /\ cbErr' = cbErr)
     /\ (cbErr # 0 /\ pc = "walk" /\ pc' = "done")
         => check'.errors = Append(check.errors, FailedToWalk(cbErr))
     /\ (cbErr' # 0 /\ pc' = "done")
         => (/\ KindCount(check'.errors, "Failed to walk directory") = 1
             /\ check'.errors[Len(check'.errors)].kind = "Failed to walk directory"
             /\ visited'[Len(visited')] = cbErr')]_vars

C8_Witness ==
  /\ pc = "done"
  /\ cbErr = 4
  /\ visited = <<1, 2, 3, 4>>
  /\ ViolationsFor(3) = 1
  /\ Len(check.errors) = 2

RECURSIVE DecimalValue(_)
\* The number a sequence of decimal digits denotes.
DecimalValue(digits) ==
  IF digits = << >> THEN 0
  ELSE LET d == digits[Len(digits)]
       IN 10 * DecimalValue(SubSeq(digits, 1, Len(digits) - 1))
            + (CHOOSE v \in 0..9 : Digit[v + 1] = d)

\* C9: Message is the all-valid text exactly when Errors is empty, otherwise
\* "Found N files without license header" with N the length of Errors; and
\* Errors is the list the run has accumulated.
C9_MessageCountsErrors ==
  /\ Errors(check) = check.errors
  /\ (Message(check) = AllValid) <=> (Errors(check) = << >>)
  /\ Errors(check) # << >> =>
       (/\ Len(Message(check)) >= 3
        /\ Message(check)[1] = "Found "
        /\ Message(check)[Len(Message(check))] = " files without license header"
        /\ DecimalValue(SubSeq(Message(check), 2, Len(Message(check)) - 1))
             = Len(Errors(check)))

C9_Witness ==
  /\ pc = "done"
  /\ Len(Errors(check)) = 1
  /\ Message(check) = <<"Found ", "1", " files without license header">>

\* Per-file violations follow the walk order, after the pattern errors.
InWalkOrder(errors) ==
  \A a, b \in DOMAIN errors :
    (a < b /\ errors[b].entry # 0)
      => (/\ errors[a].kind # "Failed to walk directory"
          /\ errors[a].entry <= errors[b].entry)

\* C10: within a run every step extends the violation list, per-file
\* violations stand in the order the walk visits the files, and a second run
\* over the unchanged tree returns the same list.
C10_AppendOnly ==
  [][/\ pc' # "new" => IsPrefixOf(check.errors, check'.errors)
     /\ InWalkOrder(check'.errors)
     /\ \A k \in DOMAIN check'.errors :
          check'.errors[k].entry # 0 => check'.errors[k].entry \in Seen'
     /\ (prev'.run /\ pc' = "done") => check' = prev'.check]_vars

C10_Witness ==
  /\ pc = "done"
  /\ prev.run
  /\ Len(prev.check.errors) >= 3
  /\ \E a, b \in DOMAIN check.errors :
       /\ a < b
       /\ check.errors[a].entry # 0
       /\ check.errors[a].entry < check.errors[b].entry
====
